---- MODULE Spec2Model ----
(***************************************************************************)
(* Model of fetch-first-dui-data.py: main() drives one call of             *)
(* post_query_and_download per record of state-list.json; every remote     *)
(* call (request_api.post / request_api.get) and every call into the       *)
(* Playwright page is one step whose answer the environment chooses.       *)
(*                                                                         *)
(* Text (Python str) is a sequence of one-character strings, so that       *)
(* startswith, endswith, `in`, replace and + are computed character by     *)
(* character as the code computes them.                                    *)
(***************************************************************************)
EXTENDS Integers, Sequences, FiniteSets, TLC

\* ------------------------------------------------------------------ bounds
\* the longest Target list read from state-list.json
MaxTargets == 2

\* ------------------------------------------------------- program constants
SSO_STATUS == 449
OK_STATUS == 200

BASE == <<"h","t","t","p","s",":","/","/","c","d","a","n",".","d","o","t",".","g","o","v">>
SAS_URL == BASE \o <<"/","S","A","S","J","o","b","E","x","e","c","u","t","i","o","n","/",
                     "?","s","s","o","_","g","u","e","s","t","=","t","r","u","e">>
QUERY_URL == BASE \o <<"/","q","u","e","r","y">>
PROGRAM == <<"/","P","u","b","l","i","c","/","O","T","R","A","/","A","p","p","s","/",
             "F","I","R","S","T","/","F","I","R","S","T">>
APPHOST == <<"c","d","a","n",".","d","o","t",".","g","o","v">>

\* ------------------------------------------------------------ Python text
StartsWith(s, p) == Len(s) >= Len(p) /\ SubSeq(s, 1, Len(p)) = p
EndsWith(s, p) == Len(s) >= Len(p) /\ SubSeq(s, Len(s) - Len(p) + 1, Len(s)) = p
Contains(s, p) == \E i \in 1..(Len(s) - Len(p) + 1) : SubSeq(s, i, i + Len(p) - 1) = p
\* str.replace(a, b) for one-character a and b
Replace(s, a, b) == [i \in 1..Len(s) |-> IF s[i] = a THEN b ELSE s[i]]

\* an optional text: Python None, or a str
None == [has |-> FALSE, s |-> <<>>]
Some(s) == [has |-> TRUE, s |-> s]
\* truth value of an optional text: None and "" are falsy
Truthy(o) == o.has /\ o.s # <<>>

\* a JSON member as dict.get returns it: None (absent or null), a str, or
\* some other value (a non-zero number, true, a list, an object)
JNone == [t |-> "none", s |-> <<>>]
JStr(s) == [t |-> "str", s |-> s]
JOther == [t |-> "other", s |-> <<>>]
JTruthy(v) == (v.t = "str" /\ v.s # <<>>) \/ v.t = "other"
\* Python's `a or b`
JOr(a, b) == IF JTruthy(a) THEN a ELSE b

\* --------------------------------------------------------- literal texts
HTTP == <<"h","t","t","p">>
XLSX == <<".","x","l","s","x">>
FILES == <<"/","f","i","l","e","s","/","f","i","l","e","s","/">>
SLASH == <<"/">>
UNKNOWN == <<"u","n","k","n","o","w","n">>
SUFFIX == <<"-","d","u","i","-","d","a","t","a",".","x","l","s","x">>

\* ------------------------------------------------- state-list.json records
\* rec: "dict" (a JSON object) or "other" (a string, number, list, null);
\* Id: the "Id" member; StateName: the "StateName" member, absent, null/other, or a str
RecNamed(id, nm) == [rec |-> "dict", Id |-> id, hasName |-> TRUE, StateName |-> JStr(nm)]
RecNoName(id) == [rec |-> "dict", Id |-> id, hasName |-> FALSE, StateName |-> JNone]
RecNullName(id) == [rec |-> "dict", Id |-> id, hasName |-> TRUE, StateName |-> JNone]
RecNotDict == [rec |-> "other", Id |-> 0, hasName |-> FALSE, StateName |-> JNone]

Records ==
  { RecNamed(1, <<"A","/","B">>), RecNamed(2, <<"A","-","B">>), RecNoName(3),
    RecNullName(4), RecNotDict }

RECURSIVE SeqsUpTo(_, _)
SeqsUpTo(S, n) ==
  IF n = 0 THEN {<<>>}
  ELSE LET shorter == SeqsUpTo(S, n - 1)
       IN shorter \cup {Append(q, x) : q \in {r \in shorter : Len(r) = n - 1}, x \in S}

\* a list that names no record twice: every identifier is its record's own
Unique(v) == \A i, j \in 1..Len(v) : i # j => v[i] # v[j]

\* what STATE_FILE holds: no file, blank text, text json.loads rejects, or
\* JSON text: a list of records, or a value a for loop cannot iterate
Configs ==
  {[file |-> k, value |-> <<>>] : k \in {"missing", "blank", "badjson", "scalar"}}
  \cup {[file |-> "list", value |-> v] : v \in {q \in SeqsUpTo(Records, MaxTargets) : Unique(q)}}

\* ------------------------------------------------------- response bodies
\* One body is one text. json: what resp.json() makes of it ("bad": it raises;
\* "nondict": a value without the members of a dict; "dict": its uri and URI
\* members). forms and anchors: the form and a elements BeautifulSoup and the
\* rendered page find in it, in document order.
Json(t, u, U) == [t |-> t, uri |-> u, URI |-> U]
NotJson == Json("bad", JNone, JNone)

Field(tag, nm, val, txt) == [tag |-> tag, name |-> nm, value |-> val, text |-> txt]
Form(n, i, act, fs) == [name |-> n, id |-> i, action |-> act, fields |-> fs]
Anchor(d, h) == [download |-> d, href |-> h]

FieldsDup ==
  << Field("input", Some(<<"a">>), Some(<<"1">>), <<>>),
     Field("input", None, Some(<<"9">>), <<>>),
     Field("textarea", Some(<<"t">>), None, <<"h","i">>),
     Field("input", Some(<<"a">>), Some(<<"2">>), <<>>) >>
FieldsPlain ==
  << Field("input", Some(<<"b">>), None, <<>>),
     Field("input", Some(<<"c">>), Some(<<"x","=","y"," ","z">>), <<>>) >>

F_name == Form(TRUE, FALSE, None, FieldsDup)
F_id == Form(FALSE, TRUE, Some(<<"/","g","o">>), FieldsPlain)
F_rel == Form(TRUE, TRUE, Some(<<"g","o">>), FieldsPlain)
F_abs == Form(TRUE, FALSE, Some(HTTP \o <<":","/","/","h","/","p">>), <<>>)
F_other == Form(FALSE, FALSE, Some(<<"/","s">>), FieldsPlain)

A_files == Anchor(None, Some(FILES \o <<"a">>))
A_rel == Anchor(None, Some(<<"r">> \o XLSX))
A_abs == Anchor(None, Some(HTTP \o <<":","/","/","h","/","f">> \o XLSX))
A_dl == Anchor(Some(<<"d">> \o XLSX), None)
A_dlhref == Anchor(Some(<<"d">> \o XLSX), Some(<<"/","g","e","t">>))
A_httprel == Anchor(None, Some(HTTP \o XLSX))
A_ftp == Anchor(None, Some(<<"f","t","p",":","/","/","h","/","f">> \o XLSX))
A_no == Anchor(None, Some(<<"/","a","b","o","u","t">>))
A_nohref == Anchor(None, None)

Body(j, fs, as) == [json |-> j, forms |-> fs, anchors |-> as]

JsonBodies ==
  { Body(Json("dict", JStr(<<"/","a","u","t","h">>), JNone), <<>>, <<>>),
    Body(Json("dict", JNone, JStr(HTTP \o <<":","/","/","s","/","a">>)), <<>>, <<>>),
    Body(Json("dict", JStr(<<"a","u","t","h">>), JNone), <<>>, <<>>),
    Body(Json("dict", JOther, JStr(<<"/","a","u","t","h">>)), <<>>, <<>>),
    Body(Json("dict", JStr(<<>>), JNone), <<>>, <<>>),
    Body(Json("nondict", JNone, JNone), <<>>, <<>>) }

HtmlBodies ==
  { Body(NotJson, <<>>, <<>>),
    Body(NotJson, <<>>, <<A_no, A_nohref>>),
    Body(NotJson, <<>>, <<A_files>>),
    Body(NotJson, <<>>, <<A_no, A_rel, A_files>>),
    Body(NotJson, <<>>, <<A_abs, A_rel>>),
    Body(NotJson, <<>>, <<A_dl, A_files>>),
    Body(NotJson, <<>>, <<A_dlhref>>),
    Body(NotJson, <<>>, <<A_httprel>>),
    Body(NotJson, <<>>, <<A_ftp>>),
    Body(NotJson, <<F_name>>, <<>>),
    Body(NotJson, <<F_other>>, <<A_files>>),
    Body(NotJson, <<F_other, F_id, F_name>>, <<A_files>>),
    Body(NotJson, <<F_rel>>, <<>>),
    Body(NotJson, <<F_abs>>, <<A_rel>>) }

\* what the job endpoint answers: a status and a body
Reply(st, b) == [status |-> st, body |-> b]
JobReplies ==
  {Reply(SSO_STATUS, b) : b \in JsonBodies \cup {Body(NotJson, <<>>, <<A_files>>)}}
  \cup {Reply(OK_STATUS, b) : b \in HtmlBodies}
  \cup {Reply(500, b) : b \in {Body(NotJson, <<>>, <<>>), Body(NotJson, <<F_id>>, <<A_files>>),
                               Body(Json("dict", JStr(<<"/","a","u","t","h">>), JNone), <<>>, <<>>)}}

\* what a form action endpoint answers
FormReplies ==
  { Body(NotJson, <<>>, <<>>),
    Body(NotJson, <<>>, <<A_files>>),
    Body(NotJson, <<>>, <<A_dl, A_files>>),
    Body(NotJson, <<>>, <<A_abs, A_rel>>),
    Body(NotJson, <<F_name>>, <<A_files>>) }

\* what the artifact endpoint answers
ArtifactStatuses == {OK_STATUS, 404}

\* ------------------------------------------------------------------ state
VARIABLES
  cfg,        \* the content of STATE_FILE
  states,     \* main: the value load_states returned
  mpc,        \* main: where it is: load, launch, loop, call, sleep, close, done, crashed
  idx,        \* main: how many records the for loop has taken
  sid, name,  \* main: the current Target's identifier and sanitized name
  fpc,        \* post_query_and_download: where it is
  status, text,         \* the last job response
  auth_url,             \* the address of the re-authentication GET
  action, inputs,       \* the ProgressForm's address and field map
  page_html,            \* the page given to the browser
  link, url,            \* the href found and the address made of it
  r2status,             \* the status of the artifact response
  log,        \* history: what the current call has done, in order
  started,    \* history: the records post_query_and_download was called for, in order
  outcome,    \* history: how each call ended: "true", "false", "raised"
  written,    \* history: the files written, in order
  sleeps,     \* history: how many time.sleep(1) have completed
  gotos,      \* history: how many page.goto(QUERY_URL) were issued
  session     \* the cookies of the browser context, which context.request shares

vars ==
  << cfg, states, mpc, idx, sid, name, fpc, status, text, auth_url, action, inputs,
     page_html, link, url, r2status, log, started, outcome, written, sleeps, gotos,
     session >>

locals == << status, text, auth_url, action, inputs, page_html, link, url, r2status >>
mainvars == << cfg, states, idx, sid, name >>
history == << started, outcome, written, sleeps, gotos >>

EmptyBody == Body(NotJson, <<>>, <<>>)

\* the cookies of the browser context, as far as they are told apart: none in a
\* new context, those the query page sets, and others. context.request stores
\* the cookies a response sets in the context, whichever request it answers.
NoSession == "none"
GuestSession == "guest"
Sessions == {GuestSession, "renewed"}

\* one step of a call as the history keeps it: the request (kind, url, data) and
\* its answer (ok: it returned and did not raise; status and body of the response)
Event(k, u, d, ok, st, b) ==
  [kind |-> k, url |-> u, data |-> d, ok |-> ok, status |-> st, body |-> b]
Answered(k, u, d, st, b) == Event(k, u, d, TRUE, st, b)
Raised(k, u, d) == Event(k, u, d, FALSE, 0, EmptyBody)

Init ==
  /\ cfg \in Configs
  /\ states = <<>>
  /\ mpc = "load"
  /\ idx = 0
  /\ sid = 0
  /\ name = <<>>
  /\ fpc = "none"
  /\ status = 0
  /\ text = EmptyBody
  /\ auth_url = <<>>
  /\ action = <<>>
  /\ inputs = <<>>
  /\ page_html = EmptyBody
  /\ link = None
  /\ url = <<>>
  /\ r2status = 0
  /\ log = <<>>
  /\ started = <<>>
  /\ outcome = <<>>
  /\ written = <<>>
  /\ sleeps = 0
  /\ gotos = 0
  /\ session = NoSession

\* ------------------------------------------------------------------- main
\* load_states raises for a missing, blank or unparsable file; main does not catch it
LoadFails(c) == c.file \in {"missing", "blank", "badjson"}

LoadStates ==
  /\ mpc = "load"
  /\ IF LoadFails(cfg)
       THEN mpc' = "crashed" /\ states' = states
       ELSE mpc' = "launch" /\ states' = cfg.value
  /\ UNCHANGED << cfg, idx, sid, name, fpc, locals, log, history, session >>

\* chromium.launch, new_context, new_page, page.goto(QUERY_URL): the goto may raise
Launch ==
  /\ mpc = "launch"
  /\ gotos' = gotos + 1
  /\ \/ mpc' = "loop" /\ session' = GuestSession
     \/ mpc' = "crashed" /\ session' = session
  /\ UNCHANGED << mainvars, fpc, locals, log, started, outcome, written, sleeps >>

\* s.get("StateName", "unknown")
NameOf(s) == IF s.hasName THEN s.StateName ELSE JStr(UNKNOWN)
\* lines 168-169 raise AttributeError: s has no get, or the name has no replace
ReadFails(s) == s.rec # "dict" \/ NameOf(s).t # "str"
Sanitize(nm) == Replace(nm, "/", "-")

\* one turn of `for s in states`: the end of the loop, or lines 168-170 and the call
NextTarget ==
  /\ mpc = "loop"
  /\ IF cfg.file = "scalar"
       THEN /\ mpc' = "crashed"
            /\ UNCHANGED << idx, sid, name, fpc, log, started >>
       ELSE IF idx = Len(states)
         THEN /\ mpc' = "close"
              /\ UNCHANGED << idx, sid, name, fpc, log, started >>
         ELSE LET s == states[idx + 1] IN
              /\ idx' = idx + 1
              /\ IF ReadFails(s)
                   THEN /\ mpc' = "crashed"
                        /\ sid' = IF s.rec = "dict" THEN s.Id ELSE sid
                        /\ UNCHANGED << name, fpc, log, started >>
                   ELSE /\ mpc' = "call"
                        /\ sid' = s.Id
                        /\ name' = Sanitize(NameOf(s).s)
                        /\ fpc' = "submit"
                        /\ log' = <<>>
                        /\ started' = Append(started, idx + 1)
  /\ UNCHANGED << cfg, states, locals, outcome, written, sleeps, gotos, session >>

\* the locals of post_query_and_download before its first line, and after it returned
FreshLocals ==
  /\ status' = 0
  /\ text' = EmptyBody
  /\ auth_url' = <<>>
  /\ action' = <<>>
  /\ inputs' = <<>>
  /\ page_html' = EmptyBody
  /\ link' = None
  /\ url' = <<>>
  /\ r2status' = 0

\* the call returned r (ok = r), or raised and line 173 caught it; line 175 is next
Return(r) ==
  /\ outcome' = Append(outcome, r)
  /\ mpc' = "sleep"
  /\ fpc' = "none"
  /\ FreshLocals

\* time.sleep(1)
Pace ==
  /\ mpc = "sleep"
  /\ sleeps' = sleeps + 1
  /\ mpc' = "loop"
  /\ log' = <<>>
  /\ UNCHANGED << mainvars, fpc, locals, started, outcome, written, gotos, session >>

\* browser.close()
Close ==
  /\ mpc = "close"
  /\ mpc' = "done"
  /\ UNCHANGED << mainvars, fpc, locals, log, history, session >>

\* -------------------------------------------------- post_query_and_download
\* the request body of the job submission: urlencode(data), which varies with sid only
JobBody(id) == << <<"SASQueryString", id>>, <<"_program", PROGRAM>>, <<"_apphostname", APPHOST>> >>

\* time.sleep(1) placed inside the try, after the call: an exception skips it
RaiseSkipsPace ==
  /\ outcome' = Append(outcome, "raised")
  /\ mpc' = "loop"
  /\ fpc' = "none"
  /\ FreshLocals
  /\ UNCHANGED << mainvars, started, written, sleeps, gotos, session >>

\* the call raised at this point; main's except clause catches it
Raise ==
  /\ Return("raised")
  /\ UNCHANGED << mainvars, started, written, sleeps, gotos, session >>

\* lines 66-71: the first job submission
Submit ==
  /\ mpc = "call" /\ fpc = "submit"
  /\ \/ \E r \in JobReplies :
          /\ log' = Append(log, Answered("submit", SAS_URL, JobBody(sid), r.status, r.body))
          /\ status' = r.status
          /\ text' = r.body
          /\ fpc' = "challenge"
          /\ UNCHANGED << mpc, mainvars, auth_url, action, inputs, page_html, link, url,
                          r2status, history >>
          /\ session' \in Sessions
     \/ /\ log' = Append(log, Raised("submit", SAS_URL, JobBody(sid)))
        /\ Raise

\* lines 75-79: the follow-up address of a challenge body; any exception gives None
ChallengeUri(b) ==
  IF b.json.t = "dict"
    THEN JOr(JOr(b.json.uri, b.json.URI), b.json.uri)
    ELSE JNone

\* every status but 200 taken for the challenge
IsChallengeAnyError(st) == st # OK_STATUS

\* line 74
IsChallenge(st) == st = SSO_STATUS

\* line 81
AuthUrl(u) == IF StartsWith(u, HTTP) THEN u ELSE BASE \o u

\* lines 74-82: no network; decides between the retry path and line 90
HandleChallenge ==
  /\ mpc = "call" /\ fpc = "challenge"
  /\ LET uri == ChallengeUri(text) IN
     IF IsChallenge(status) /\ JTruthy(uri)
       THEN IF uri.t = "str"
              THEN /\ auth_url' = AuthUrl(uri.s)
                   /\ fpc' = "reauth"
                   /\ UNCHANGED << mpc, outcome, status, text, action, inputs, page_html,
                                   link, url, r2status >>
              ELSE \* uri.startswith raises AttributeError
                   Return("raised")
       ELSE /\ fpc' = "soup"
            /\ UNCHANGED << mpc, outcome, locals >>
  /\ UNCHANGED << mainvars, log, started, written, sleeps, gotos, session >>

\* line 83: the re-authentication GET
Reauth ==
  /\ mpc = "call" /\ fpc = "reauth"
  /\ \/ /\ log' = Append(log, Answered("reauth", auth_url, <<>>, 0, EmptyBody))
        /\ fpc' = "resubmit"
        /\ session' \in Sessions
        /\ UNCHANGED << mpc, mainvars, locals, history >>
     \/ /\ log' = Append(log, Raised("reauth", auth_url, <<>>))
        /\ Raise

\* a retry loop in place of the single retry: the response is examined for a challenge again
AfterResubmitRetry == "challenge"

\* where the code goes on after the resubmission's response: line 90
AfterResubmit == "soup"

\* lines 84-88: the job submission again
Resubmit ==
  /\ mpc = "call" /\ fpc = "resubmit"
  /\ \/ \E r \in JobReplies :
          /\ log' = Append(log, Answered("resubmit", SAS_URL, JobBody(sid), r.status, r.body))
          /\ status' = r.status
          /\ text' = r.body
          /\ fpc' = AfterResubmit
          /\ UNCHANGED << mpc, mainvars, auth_url, action, inputs, page_html, link, url,
                          r2status, history >>
          /\ session' \in Sessions
     \/ /\ log' = Append(log, Raised("resubmit", SAS_URL, JobBody(sid)))
        /\ Raise

\* the index of the first TRUE of a sequence of truth values, or 0: the first
\* element in document order that a find or a selector matches
FirstIndex(q) ==
  IF \E i \in 1..Len(q) : q[i]
    THEN CHOOSE i \in 1..Len(q) : q[i] /\ \A k \in 1..(i - 1) : ~q[k]
    ELSE 0

\* which forms of a body have name="ProgressForm", and which id="ProgressForm"
HasName(b) == [i \in 1..Len(b.forms) |-> b.forms[i].name]
HasId(b) == [i \in 1..Len(b.forms) |-> b.forms[i].id]

\* the lookup by id of line 93 left out
FindFormByNameOnly(b) == FirstIndex(HasName(b))

\* line 93: soup.find by name, or else soup.find by id; 0 when there is none
FindProgressForm(b) ==
  IF FirstIndex(HasName(b)) # 0
    THEN FirstIndex(HasName(b))
    ELSE FirstIndex(HasId(b))

\* lines 95-97
FormAction(f) ==
  LET a == IF Truthy(f.action) THEN f.action.s ELSE SAS_URL
  IN IF StartsWith(a, SLASH) THEN BASE \o a ELSE a

\* inputs[k] = v on a dict kept as the sequence of its items in insertion order
DictSet(d, k, v) ==
  IF \E i \in 1..Len(d) : d[i][1] = k
    THEN [i \in 1..Len(d) |-> IF d[i][1] = k THEN <<k, v>> ELSE d[i]]
    ELSE Append(d, <<k, v>>)

\* inp.get("value", "")
FieldValue(f) == IF f.value.has THEN f.value.s ELSE <<>>

\* lines 98-103
RECURSIVE FormInputs(_, _)
FormInputs(fs, d) ==
  IF fs = <<>> THEN d
  ELSE LET f == Head(fs) IN
       IF ~Truthy(f.name)
         THEN FormInputs(Tail(fs), d)
         ELSE FormInputs(Tail(fs), DictSet(d, f.name.s, FieldValue(f)))

\* urllib.parse.quote_plus of one character
QuoteChar(c) ==
  CASE c = " " -> <<"+">>
    [] c = "=" -> <<"%","3","D">>
    [] c = "&" -> <<"%","2","6">>
    [] c = "/" -> <<"%","2","F">>
    [] c = ":" -> <<"%","3","A">>
    [] c = "?" -> <<"%","3","F">>
    [] c = "+" -> <<"%","2","B">>
    [] c = "%" -> <<"%","2","5">>
    [] OTHER -> <<c>>

RECURSIVE QuotePlus(_)
QuotePlus(s) == IF s = <<>> THEN <<>> ELSE QuoteChar(Head(s)) \o QuotePlus(Tail(s))

\* line 105: urlencode of a dict: its items in order, each key and value quoted
UrlEncode(d) == [i \in 1..Len(d) |-> <<QuotePlus(d[i][1]), QuotePlus(d[i][2])>>]

\* lines 90-105 and 109-110: no network; finds the ProgressForm or passes text on
FindForm ==
  /\ mpc = "call" /\ fpc = "soup"
  /\ LET i == FindProgressForm(text) IN
     IF i # 0
       THEN /\ action' = FormAction(text.forms[i])
            /\ inputs' = FormInputs(text.forms[i].fields, <<>>)
            /\ fpc' = "formpost"
            /\ UNCHANGED page_html
       ELSE /\ page_html' = text
            /\ fpc' = "load"
            /\ UNCHANGED << action, inputs >>
  /\ UNCHANGED << mpc, mainvars, status, text, auth_url, link, url, r2status, log, history,
                  session >>

\* lines 106-108: the form POST
FormPost ==
  /\ mpc = "call" /\ fpc = "formpost"
  /\ \/ \E b \in FormReplies :
          /\ log' = Append(log, Answered("formpost", action, UrlEncode(inputs), 0, b))
          /\ page_html' = b
          /\ fpc' = "load"
          /\ UNCHANGED << mpc, mainvars, status, text, auth_url, action, inputs, link, url,
                          r2status, history >>
          /\ session' \in Sessions
     \/ /\ log' = Append(log, Raised("formpost", action, UrlEncode(inputs)))
        /\ Raise

\* lines 113-119: page.set_content, and page.goto of a data: address if it raises
LoadPage ==
  /\ mpc = "call" /\ fpc = "load"
  /\ \/ /\ log' = Append(log, Answered("load", <<>>, page_html, 0, EmptyBody))
        /\ fpc' = "poll"
        /\ UNCHANGED << mpc, mainvars, locals, history, session >>
     \/ /\ log' = Append(log, Raised("load", <<>>, page_html))
        /\ Raise

\* the selector of lines 123 and 128
Qualifies(a) ==
  \/ a.download.has /\ EndsWith(a.download.s, XLSX)
  \/ a.href.has /\ EndsWith(a.href.s, XLSX)
  \/ a.href.has /\ Contains(a.href.s, FILES)

\* the element wait_for_selector and document.querySelector give: the first match
FirstMatch(b) == FirstIndex([i \in 1..Len(b.anchors) |-> Qualifies(b.anchors[i])])

\* get_attribute("href") of the matched element; null when no element matched
HrefOf(b) == IF FirstMatch(b) = 0 THEN None ELSE b.anchors[FirstMatch(b)].href

\* polling by posting the job again until the link shows up
PollLinkReposting ==
  /\ mpc = "call" /\ fpc = "poll"
  /\ link' = HrefOf(page_html)
  /\ log' = log \o << Answered("submit", SAS_URL, JobBody(sid), status, text),
                      Answered("poll", <<>>, page_html, 0, EmptyBody) >>
  /\ fpc' = "normalize"
  /\ UNCHANGED << mpc, mainvars, status, text, auth_url, action, inputs, page_html, url,
                  r2status, history, session >>

\* lines 122-130: wait_for_selector returns a handle; or it raises and evaluate
\* answers; or both raise and link is None
PollLink ==
  /\ mpc = "call" /\ fpc = "poll"
  /\ \/ /\ FirstMatch(page_html) # 0
        /\ link' = HrefOf(page_html)
        /\ log' = Append(log, Answered("poll", <<>>, page_html, 0, EmptyBody))
     \/ /\ link' = HrefOf(page_html)
        /\ log' = Append(log, Answered("poll", <<>>, page_html, 0, EmptyBody))
     \/ /\ link' = None
        /\ log' = Append(log, Raised("poll", <<>>, page_html))
  /\ fpc' = "normalize"
  /\ UNCHANGED << mpc, mainvars, status, text, auth_url, action, inputs, page_html, url,
                  r2status, history, session >>

\* lines 138-143
NormalizeLink(l) ==
  IF StartsWith(l, SLASH) THEN BASE \o l
  ELSE IF StartsWith(l, HTTP) THEN l
  ELSE BASE \o SLASH \o l

\* line 132
LinkMissing(l) == ~Truthy(l)

\* lines 132-143: no network; returns False without a link
Normalize ==
  /\ mpc = "call" /\ fpc = "normalize"
  /\ IF LinkMissing(link)
       THEN Return("false")
       ELSE /\ url' = NormalizeLink(link.s)
            /\ fpc' = "get"
            /\ UNCHANGED << mpc, outcome, status, text, auth_url, action, inputs, page_html,
                            link, r2status >>
  /\ UNCHANGED << mainvars, log, started, written, sleeps, gotos, session >>

\* line 145: the artifact GET
Download ==
  /\ mpc = "call" /\ fpc = "get"
  /\ \/ \E st \in ArtifactStatuses :
          /\ log' = Append(log, Answered("artifact", url, <<>>, st, EmptyBody))
          /\ r2status' = st
          /\ fpc' = "save"
          /\ UNCHANGED << mpc, mainvars, status, text, auth_url, action, inputs, page_html,
                          link, url, history >>
          /\ session' \in Sessions
     \/ /\ log' = Append(log, Raised("artifact", url, <<>>))
        /\ Raise

\* line 147
OutPath(nm) == nm \o SUFFIX

\* the status check of line 146 left out: any response is saved
DownloadAny(st) == TRUE

\* line 146
DownloadOk(st) == st = OK_STATUS

\* lines 146-155: writes the file and returns True, or returns False
Save ==
  /\ mpc = "call" /\ fpc = "save"
  /\ IF DownloadOk(r2status)
       THEN /\ written' = Append(written, [target |-> idx, path |-> OutPath(name)])
            /\ log' = Append(log, Answered("write", OutPath(name), <<>>, 0, EmptyBody))
            /\ Return("true")
       ELSE /\ Return("false")
            /\ UNCHANGED << written, log >>
  /\ UNCHANGED << mainvars, started, sleeps, gotos, session >>

Next ==
  \/ LoadStates
  \/ Launch
  \/ NextTarget
  \/ Submit
  \/ HandleChallenge
  \/ Reauth
  \/ Resubmit
  \/ FindForm
  \/ FormPost
  \/ LoadPage
  \/ PollLink
  \/ Normalize
  \/ Download
  \/ Save
  \/ Pace
  \/ Close

Spec == Init /\ [][Next]_vars

\* ============================================================= properties
\* the steps of the current call of a given kind, and their number
Kinds(k) == {i \in 1..Len(log) : log[i].kind = k}
Count(k) == Cardinality(Kinds(k))
\* the state between the end of a call and time.sleep: the call's history is complete
AttemptOver == mpc = "sleep"
LastOutcome == outcome[Len(outcome)]

\* the follow-up address of a challenge body: its uri member, or its URI member
\* when uri is absent or empty; usable when it is a non-empty text
FollowUp(b) == IF JTruthy(b.json.uri) THEN b.json.uri ELSE b.json.URI
UsableFollowUp(b) == b.json.t = "dict" /\ FollowUp(b).t = "str" /\ FollowUp(b).s # <<>>
NoFollowUp(b) == b.json.t # "dict" \/ ~JTruthy(FollowUp(b))

\* the first job submission was answered with the challenge status and a usable address
ChallengedUsable ==
  /\ Len(log) >= 1
  /\ log[1].kind = "submit" /\ log[1].ok
  /\ log[1].status = SSO_STATUS
  /\ UsableFollowUp(log[1].body)

\* a job response that sends the call into lines 81-88: it is not the final one
RetryPath(e) == e.status = SSO_STATUS /\ e.body.json.t = "dict" /\ JTruthy(FollowUp(e.body))

AtMostOneRetry == Count("reauth") <= 1 /\ Count("resubmit") <= 1

\* the second step is the re-authentication GET, to the follow-up address
ReauthSecond ==
  /\ Len(log) >= 2
  /\ log[2].kind = "reauth"
  /\ log[2].url = AuthUrl(FollowUp(log[1].body).s)

\* the third step is the job submission again, with the request of the first
ResubmitThird ==
  /\ Len(log) >= 3
  /\ log[3].kind = "resubmit"
  /\ log[3].url = log[1].url
  /\ log[3].data = log[1].data

\* C1 (as stated): a Target never gets more than one re-authentication GET or more
\* than one resubmission, and every Target whose first submission is answered 449
\* with a usable follow-up address gets exactly one re-authentication GET followed
\* by exactly one resubmission of the original job request.
C1_Original ==
  /\ AtMostOneRetry
  /\ (AttemptOver /\ ChallengedUsable) =>
       (ReauthSecond /\ ResubmitThird /\ Count("reauth") = 1 /\ Count("resubmit") = 1)

\* C1 (amended): a Target never gets more than one re-authentication GET or more
\* than one resubmission; a Target whose first submission is answered 449 with a
\* usable follow-up address gets exactly one re-authentication GET, and, when that
\* GET returns, exactly one resubmission of the original job request right after
\* it; when the GET raises, the attempt ends without a resubmission.
C1_BoundedRetry ==
  /\ AtMostOneRetry
  /\ (AttemptOver /\ ChallengedUsable) =>
       /\ ReauthSecond
       /\ Count("reauth") = 1
       /\ IF log[2].ok
            THEN ResubmitThird /\ Count("resubmit") = 1
            ELSE Len(log) = 2 /\ LastOutcome = "raised"

\* C1 witness: a finished attempt that was challenged, re-authenticated and resubmitted once
C1_Witness ==
  /\ AttemptOver /\ ChallengedUsable
  /\ ReauthSecond /\ log[2].ok
  /\ ResubmitThird /\ log[3].ok /\ log[3].status = SSO_STATUS
  /\ Count("reauth") = 1 /\ Count("resubmit") = 1

\* the steps that follow the job submissions
LaterSteps == {"formpost", "load", "poll", "artifact", "write"}

\* C2: when the resubmission is itself answered 449, the attempt is over at that
\* point: no form POST, no link resolution and no artifact GET follow it.
C2_SecondChallengeTerminal ==
  \A i \in Kinds("resubmit") :
    (log[i].ok /\ log[i].status = SSO_STATUS) =>
      \A j \in (i + 1)..Len(log) : log[j].kind \notin LaterSteps

\* C3: when the first submission is answered 449 and the body is not parsable or
\* has no follow-up address, no re-authentication GET and no resubmission are
\* issued and the attempt does not go on to form resolution, link resolution or
\* download.
C3_UnresolvableTerminal ==
  (/\ Len(log) >= 1
   /\ log[1].kind = "submit" /\ log[1].ok
   /\ log[1].status = SSO_STATUS
   /\ NoFollowUp(log[1].body)) =>
     \A j \in 2..Len(log) : log[j].kind \notin (LaterSteps \cup {"reauth", "resubmit"})

\* the run is over
RunOver == mpc \in {"done", "crashed"}

\* C4: the Targets are attempted one at a time in input order, each exactly once:
\* an attempt starts only when all earlier ones have ended, and when the run is
\* over every record of the input that has an identifier and a name has had its
\* attempt.
C4_EveryTargetOnce ==
  /\ \A i, j \in 1..Len(started) : i < j => started[i] < started[j]
  /\ Len(outcome) = Len(started) - (IF mpc = "call" THEN 1 ELSE 0)
  /\ (RunOver /\ idx >= 1) =>
       \A i \in 1..Len(states) :
         ~ReadFails(states[i]) => \E k \in 1..Len(started) : started[k] = i

\* C5: no error raised while the loop processes a Target ends the run: the run
\* is ended by an error only before the loop has taken its first record.
C5_ErrorsCaught == mpc = "crashed" => idx = 0

HasProgressForm(b) == \E i \in 1..Len(b.forms) : b.forms[i].name \/ b.forms[i].id

\* the last job submission of the call (0 when there is none)
LastSubmission ==
  IF Kinds("resubmit") # {} THEN CHOOSE i \in Kinds("resubmit") : TRUE
  ELSE IF Kinds("submit") # {} THEN CHOOSE i \in Kinds("submit") : TRUE
  ELSE 0

\* C7: at most one form POST per attempt; a form POST is issued only right after
\* a final submission whose body contains a ProgressForm; the page loaded for
\* link resolution is the final submission body when that body has no
\* ProgressForm (and then no form POST was issued), and the form POST's response
\* body when it has one (and then exactly one form POST was issued), also when
\* that response contains a ProgressForm again.
C7_FormResolver ==
  /\ Count("formpost") <= 1
  /\ Count("load") <= 1
  /\ \A i \in Kinds("formpost") :
       i - 1 = LastSubmission /\ log[i - 1].ok /\ HasProgressForm(log[i - 1].body)
  /\ \A i \in Kinds("load") :
       LET sub == log[LastSubmission] IN
       IF HasProgressForm(sub.body)
         THEN /\ Count("formpost") = 1
              /\ log[i - 1].kind = "formpost" /\ log[i - 1].ok
              /\ log[i].data = log[i - 1].body
         ELSE /\ Count("formpost") = 0
              /\ i - 1 = LastSubmission
              /\ log[i].data = sub.body
  /\ (AttemptOver /\ LastSubmission # 0 /\ log[LastSubmission].ok
        /\ (log[LastSubmission].kind = "submit" => ~RetryPath(log[LastSubmission]))
        /\ HasProgressForm(log[LastSubmission].body)) => Count("formpost") = 1

\* C7 witness: one form POST whose response contains a ProgressForm again was
\* loaded for link resolution as it is
C7_Witness ==
  /\ Count("formpost") = 1
  /\ \E i \in Kinds("load") :
       /\ log[i - 1].kind = "formpost"
       /\ HasProgressForm(log[i - 1].body)
       /\ log[i].data = log[i - 1].body
  /\ AttemptOver

\* the value a form field holds: the text of a textarea, the value attribute of an input
CurrentValue(f) ==
  IF f.tag = "textarea" THEN f.text ELSE IF f.value.has THEN f.value.s ELSE <<>>

\* C8: the form POST carries, for every named field of the ProgressForm, the
\* field's name with its current value.
C8_AllFieldsCarried ==
  \A i \in Kinds("formpost") :
    LET b == log[i - 1].body
        f == b.forms[FindProgressForm(b)]
    IN \A k \in 1..Len(f.fields) :
         Truthy(f.fields[k].name) =>
           \E m \in 1..Len(log[i].data) :
             log[i].data[m] = <<QuotePlus(f.fields[k].name.s), QuotePlus(CurrentValue(f.fields[k]))>>

\* the qualifying anchors of a page, by position
Qualifying(b) ==
  {i \in 1..Len(b.anchors) :
     \/ b.anchors[i].download.has /\ EndsWith(b.anchors[i].download.s, XLSX)
     \/ b.anchors[i].href.has /\ EndsWith(b.anchors[i].href.s, XLSX)
     \/ b.anchors[i].href.has /\ Contains(b.anchors[i].href.s, FILES)}

\* C9: when the page was rendered and queried, the link is not-found for a page
\* without a qualifying anchor, and otherwise it is a reference: that of the
\* first qualifying anchor in document order.
C9_FirstQualifying ==
  (fpc = "normalize" /\ log[Len(log)].kind = "poll" /\ log[Len(log)].ok) =>
    LET page == log[Len(log)].data IN
    IF Qualifying(page) = {}
      THEN ~Truthy(link)
      ELSE /\ Truthy(link)
           /\ \E i \in Qualifying(page) :
                /\ \A k \in Qualifying(page) : i <= k
                /\ link = page.anchors[i].href

Letters ==
  {"a","b","c","d","e","f","g","h","i","j","k","l","m",
   "n","o","p","q","r","s","t","u","v","w","x","y","z"}

\* a reference is an absolute address: a scheme of letters, then "://"
IsAbsolute(r) ==
  \E i \in 2..(Len(r) - 2) :
    /\ SubSeq(r, i, i + 2) = <<":", "/", "/">>
    /\ \A k \in 1..(i - 1) : r[k] \in Letters

\* C10: the artifact GET goes to BASE + r when r starts with "/", to r when r is
\* an absolute address, and to BASE + "/" + r otherwise.
C10_Normalized ==
  (fpc = "save" /\ log[Len(log)].kind = "artifact") =>
    log[Len(log)].url =
      (IF StartsWith(link.s, SLASH) THEN BASE \o link.s
       ELSE IF IsAbsolute(link.s) THEN link.s
       ELSE BASE \o SLASH \o link.s)

\* C11: the pacing delay elapses between the end of every attempt and the first
\* job submission of the next Target, however the attempt ended (True, False or
\* a caught exception): while a call is in progress, and whenever the loop looks
\* for the next record, one sleep has completed for each attempt that has ended.
C11_Paced ==
  /\ sleeps <= Len(outcome)
  /\ mpc = "sleep" => sleeps = Len(outcome) - 1
  /\ mpc \in {"loop", "call", "close", "done"} => sleeps = Len(outcome)
  /\ mpc = "call" => Len(outcome) = idx - 1

\* C11 witness: the second Target's job submission has been sent, after a first
\* attempt that ended in a caught exception and one completed sleep
C11_Witness ==
  /\ mpc = "call" /\ idx = 2
  /\ Kinds("submit") # {}
  /\ outcome = <<"raised">>
  /\ sleeps = 1

\* the Target list is missing, empty or unparsable, or parses to an empty list
\* or to something other than a sequence of Target records
BadConfig ==
  \/ LoadFails(cfg)
  \/ cfg.file = "scalar"
  \/ cfg.file = "list" /\ cfg.value = <<>>
  \/ cfg.file = "list" /\ \E i \in 1..Len(cfg.value) : cfg.value[i].rec # "dict"

\* C12: with a missing, empty or unparsable Target list (an empty list and a
\* value that is not a sequence of Target records included), main aborts with an
\* error before any Target is processed and before any request is sent to the
\* remote service: the run never gets past loading, it ends in the crash, the
\* query page is never requested and no Target is started.
C12_ConfigFatal ==
  BadConfig =>
    /\ mpc \in {"load", "crashed"}
    /\ gotos = 0
    /\ started = <<>>
    /\ log = <<>>

\* C13: two Targets with distinct identifiers that both end Downloaded never
\* write the same destination path.
C13_OneFilePerTarget ==
  \A i, j \in 1..Len(written) :
    states[written[i].target].Id # states[written[j].target].Id =>
      written[i].path # written[j].path

\* an address resolved against the service base address: unchanged when
\* absolute, BASE + r with a leading "/", BASE + "/" + r otherwise
Resolve(r) ==
  IF IsAbsolute(r) THEN r
  ELSE IF StartsWith(r, SLASH) THEN BASE \o r
  ELSE BASE \o SLASH \o r

\* C14: the re-authentication GET goes to the follow-up address of the challenge
\* body resolved against the base address, and the form POST goes to the action
\* address of a ProgressForm of the body before it resolved against the base
\* address (to the job endpoint when the form has no action); neither request
\* goes to a relative or malformed address.
C14_AbsoluteAddresses ==
  /\ \A i \in Kinds("reauth") :
       /\ log[i].url = Resolve(FollowUp(log[i - 1].body).s)
       /\ IsAbsolute(log[i].url)
  /\ \A i \in Kinds("formpost") :
       /\ \E k \in 1..Len(log[i - 1].body.forms) :
            LET f == log[i - 1].body.forms[k] IN
            /\ f.name \/ f.id
            /\ log[i].url = IF Truthy(f.action) THEN Resolve(f.action.s) ELSE SAS_URL
       /\ IsAbsolute(log[i].url)

\* the place of a step in the order of one attempt
Rank(k) ==
  CASE k = "submit" -> 1
    [] k = "reauth" -> 2
    [] k = "resubmit" -> 3
    [] k = "formpost" -> 4
    [] k = "load" -> 5
    [] k = "poll" -> 6
    [] k = "artifact" -> 7
    [] k = "write" -> 8

\* the steps of an attempt in their order, none repeated: the first is the job
\* submission, the re-authentication GET follows a submission answered 449, the
\* resubmission follows the GET, the form POST follows the last job submission,
\* the page is loaded after the form step or else after the last submission,
\* it is polled after it is loaded, the artifact GET follows a poll that
\* found a link, and the file is written after a GET answered 200
StepOrder ==
  /\ \A i, j \in 1..Len(log) : i < j => Rank(log[i].kind) < Rank(log[j].kind)
  /\ Len(log) >= 1 => log[1].kind = "submit"
  /\ \A i \in Kinds("reauth") :
       log[i - 1].kind = "submit" /\ log[i - 1].status = SSO_STATUS
  /\ \A i \in Kinds("resubmit") : log[i - 1].kind = "reauth"
  /\ \A i \in Kinds("formpost") : i - 1 = LastSubmission
  /\ \A i \in Kinds("load") : log[i - 1].kind = "formpost" \/ i - 1 = LastSubmission
  /\ \A i \in Kinds("poll") : log[i - 1].kind = "load"
  /\ \A i \in Kinds("artifact") :
       log[i - 1].kind = "poll" /\ Truthy(HrefOf(log[i - 1].data))
  /\ \A i \in Kinds("write") :
       log[i - 1].kind = "artifact" /\ log[i - 1].status = OK_STATUS

\* a step that raised, a poll that gave no link and an artifact GET answered
\* with another status than 200 are the last step of their attempt
FailedStepLast ==
  \A i \in 1..(Len(log) - 1) :
    /\ log[i].ok
    /\ log[i].kind = "poll" => Truthy(HrefOf(log[i].data))
    /\ log[i].kind = "artifact" => log[i].status = OK_STATUS

\* a challenge that cannot be resolved is the last step of its attempt: a first
\* submission answered 449 without a usable follow-up address, and a
\* resubmission answered 449 again
ChallengeFailureLast ==
  /\ \A i \in Kinds("submit") :
       (log[i].ok /\ log[i].status = SSO_STATUS /\ ~UsableFollowUp(log[i].body))
         => i = Len(log)
  /\ \A i \in Kinds("resubmit") :
       (log[i].ok /\ log[i].status = SSO_STATUS) => i = Len(log)

\* C15: within one Target the steps occur strictly in the order Submitted,
\* (Challenged, Reauthenticated, Resubmitted)?, FormResolved?, LinkResolved,
\* Downloaded, no step repeated or out of order, and every failure state (a
\* failed step, an unresolvable challenge, a second challenge) is terminal.
C15_StrictOrder == StepOrder /\ FailedStepLast /\ ChallengeFailureLast

\* C16: while a Target is processed the shared Session is changed only by the
\* re-authentication GET: the job submissions, the form POST, the page load, the
\* polling and the artifact GET leave it as it is, so a Target that is never
\* challenged leaves the Session as it found it.
C16_SessionFrame ==
  [][(mpc = "call" /\ session' # session) => fpc = "reauth"]_vars

\* the first job submission was answered, with another status than 449
FirstNotChallenged == Len(log) >= 1 /\ log[1].ok /\ log[1].status # SSO_STATUS

\* C17: when the first job submission is answered with any status but 449, the
\* attempt has no re-authentication GET and no second job submission, and the
\* first response body is what form resolution works on: the next step is the
\* form POST with the fields of its ProgressForm, or the load of that body.
C17_ChallengeOnly449 ==
  FirstNotChallenged =>
    /\ Count("reauth") = 0 /\ Count("resubmit") = 0 /\ Count("submit") = 1
    /\ fpc \in {"challenge", "soup"} => text = log[1].body
    /\ Len(log) >= 2 =>
         LET i == FindProgressForm(log[1].body) IN
         IF HasProgressForm(log[1].body)
           THEN /\ log[2].kind = "formpost"
                /\ log[2].data = UrlEncode(FormInputs(log[1].body.forms[i].fields, <<>>))
           ELSE /\ log[2].kind = "load"
                /\ log[2].data = log[1].body

\* C17 witness: a first submission answered 500 with a body that carries a
\* usable follow-up address, and the body was loaded as the page
C17_Witness ==
  /\ FirstNotChallenged
  /\ log[1].status = 500
  /\ UsableFollowUp(log[1].body)
  /\ Len(log) >= 2 /\ log[2].kind = "load"

\* the steps that send a request to the remote service
Requests == {i \in 1..Len(log) : log[i].kind \in {"submit", "reauth", "resubmit", "formpost", "artifact"}}

\* C18: one attempt sends at most two job POSTs, one re-authentication GET, one
\* form POST and one artifact GET, five requests in all, and none while the
\* page is polled: the poll comes right after the page load, and the only
\* request after it is the artifact GET.
C18_BoundedRequests ==
  /\ Count("submit") + Count("resubmit") <= 2
  /\ Count("reauth") <= 1
  /\ Count("formpost") <= 1
  /\ Count("artifact") <= 1
  /\ Cardinality(Requests) <= 5
  /\ \A i \in Kinds("poll") :
       /\ log[i - 1].kind = "load"
       /\ \A j \in Requests : j < i - 1 \/ (j > i /\ log[j].kind = "artifact")

\* C18 witness: an attempt that sent all five requests and polled the page
C18_Witness ==
  /\ Cardinality(Requests) = 5
  /\ Count("resubmit") = 1
  /\ Kinds("poll") # {}

====
